---- MODULE Spec2Model ----
(***************************************************************************)
(* Model of the two analytics report templates of the repository:         *)
(*   skills/cohort_analysis/cohort_analysis.py  (cohort retention)        *)
(*   skills/sales_funnel/sales_funnel.py        (sales funnel)            *)
(* Each script is a linear batch run; the model follows a run block by    *)
(* block.  SpecCohort is a run of the cohort script, SpecFunnel a run of  *)
(* the funnel script.                                                     *)
(*                                                                         *)
(* Numbers: pandas computes the percentages in float64.  The model keeps  *)
(* them as exact fractions [n, d] in lowest terms (d > 0); NaN is the     *)
(* fraction with d = 0 and n = 0, inf the one with d = 0 and n = 1.       *)
(* Dates: a month Period is modelled by its ordinal year * 12 + month - 1.*)
(* Text: a stage name and the stage configuration are sequences of        *)
(* one-character strings, so that str.split is modelled character by     *)
(* character.                                                             *)
(***************************************************************************)
EXTENDS Integers, Sequences, FiniteSets, TLC

\* ------------------------------------------------------------------ bounds

\* Longest injected array of event records.
MaxLen == 4
\* User ids are 1..MaxUser.
MaxUser == 2

\* Longest injected array of funnel records.
MaxRows == 3
\* Most stage names in a stage configuration.
MaxStages == 3

UserIds == 1..MaxUser

\* ------------------------------------------------------- generic helpers

Abs(x) == IF x < 0 THEN -x ELSE x

RECURSIVE GCD(_, _)
GCD(a, b) == IF b = 0 THEN a ELSE GCD(b, a % b)

NaN == [n |-> 0, d |-> 0]
Inf == [n |-> 1, d |-> 0]

isna(x) == x.d = 0 /\ x.n = 0

\* The float n / d as a fraction in lowest terms (0 / 0 is NaN, k / 0 is inf).
Rat(n, d) ==
    IF d = 0 THEN (IF n = 0 THEN NaN ELSE Inf)
    ELSE LET g == GCD(Abs(n), Abs(d))
             s == IF d < 0 THEN -1 ELSE 1
         IN  [n |-> (s * n) \div g, d |-> (s * d) \div g]

Num(k) == [n |-> k, d |-> 1]

RatMul(a, b) == IF a.d = 0 \/ b.d = 0 THEN NaN ELSE Rat(a.n * b.n, a.d * b.d)

RatAdd(a, b) ==
    IF a.d = 0 \/ b.d = 0 THEN NaN ELSE Rat(a.n * b.d + b.n * a.d, a.d * b.d)

\* a / b of two float cells: NaN if either is NaN.
RatDiv(a, b) ==
    IF isna(a) \/ isna(b) THEN NaN
    ELSE IF a.d = 0 \/ b.d = 0 THEN NaN
    ELSE Rat(a.n * b.d, a.d * b.n)

RatLess(a, b) == a.n * b.d < b.n * a.d

SetMin(S) == CHOOSE x \in S : \A y \in S : x <= y

\* The elements of a finite set of integers in ascending order.
RECURSIVE SortedSeq(_)
SortedSeq(S) ==
    IF S = {} THEN << >>
    ELSE LET m == SetMin(S) IN << m >> \o SortedSeq(S \ {m})

Range(s) == { s[i] : i \in 1..Len(s) }

SeqsUpTo(S, n) == UNION { [1..k -> S] : k \in 0..n }

SetMax(S) == CHOOSE x \in S : \A y \in S : y <= x

\* The user_id columns of the arrays of n records. The scripts only compare user
\* ids for equality, so the columns are enumerated up to a renaming of the users:
\* the ids appear in the order 1, 2, ... of their first record.
UserColumns(n) ==
    { us \in [1..n -> UserIds] :
        \A i \in 1..n : \A u \in 1..(us[i] - 1) : \E j \in 1..(i - 1) : us[j] = u }

\* ------------------------------------------------------- cohort: inputs

\* The text of the data placeholder, as it stands in the template.
DataPlaceholder == "{{data}}"

\* Date strings of the injected records and what pd.to_datetime makes of them.
SampleDates == {"2023-08-15", "2024-01-10", "2024-01-20", "2024-02-05", "2024-03-01"}

to_datetime(s) ==
    CASE s = "2023-08-15" -> [y |-> 2023, m |-> 8, d |-> 15]
      [] s = "2024-01-10" -> [y |-> 2024, m |-> 1, d |-> 10]
      [] s = "2024-01-20" -> [y |-> 2024, m |-> 1, d |-> 20]
      [] s = "2024-02-05" -> [y |-> 2024, m |-> 2, d |-> 5]
      [] s = "2024-03-01" -> [y |-> 2024, m |-> 3, d |-> 1]

\* The text of an injected JSON array (its content is kept in rows).
JsonText == "[...]"

\* data_json with the placeholder left as it is.
CohortTemplate == [text |-> DataPlaceholder, rows |-> << >>]

\* data_json with an injected JSON array of n records, given by its columns.
CohortInjected(n, us, ds) ==
    [text |-> JsonText, rows |-> [k \in 1..n |-> [user_id |-> us[k], date |-> ds[k]]]]

VARIABLES
    cpc,            \* cohort script: the block the run is at
    data_json,      \* cohort script: data_json
    df,             \* cohort script: the rows of df
    cohort_pivot,   \* cohort script: cohort_pivot
    cohort_sizes,   \* cohort script: cohort_sizes
    retention,      \* cohort script: retention
    avg_retention,  \* cohort script: avg_retention
    best_cohort,    \* cohort script: best_cohort
    worst_cohort,   \* cohort script: worst_cohort
    cout            \* cohort script: what the run has left outside (stdout, files, exit status)

cohortVars == << cpc, data_json, df, cohort_pivot, cohort_sizes, retention,
                 avg_retention, best_cohort, worst_cohort, cout >>

\* ------------------------------------------------------- cohort: helpers

DateLess(a, b) ==
    \/ a.y < b.y
    \/ a.y = b.y /\ a.m < b.m
    \/ a.y = b.y /\ a.m = b.m /\ a.d < b.d

\* dt.to_period('M'), as the ordinal of the month.
to_period_M(dt) == dt.y * 12 + (dt.m - 1)

\* A slip: the date of the user's first row taken for the earliest (transform('first')).
MinDateFirstRow(rows, u) ==
    rows[SetMin({ j \in 1..Len(rows) : rows[j].user_id = u })].date

\* groupby('user_id')['date'].transform('min'): the earliest date among the rows of u.
MinDate(rows, u) ==
    LET ds == { rows[i].date : i \in { j \in 1..Len(rows) : rows[j].user_id = u } }
    IN  CHOOSE x \in ds : \A y \in ds : ~DateLess(y, x)

\* The cohort_month column of one row.
CohortMonthOf(rows, i) == to_period_M(MinDate(rows, rows[i].user_id))

\* (activity_month - cohort_month).n
PeriodNumber(activity_month, cohort_month) == activity_month - cohort_month

\* groupby(['cohort_month', 'period_number'])['user_id'].nunique() of one group.
NUnique(rows, c, p) ==
    Cardinality({ rows[i].user_id :
                    i \in { j \in 1..Len(rows) :
                              rows[j].cohort_month = c /\ rows[j].period_number = p } })

\* cohort_data pivoted: rows the cohort months, columns the period numbers, both
\* sorted; a (cohort, period) pair with no group is NaN.
Pivot(rows) ==
    LET idx  == { rows[i].cohort_month : i \in 1..Len(rows) }
        cols == { rows[i].period_number : i \in 1..Len(rows) }
    IN  [index   |-> SortedSeq(idx),
         columns |-> SortedSeq(cols),
         values  |-> [c \in idx, p \in cols |->
                        IF NUnique(rows, c, p) = 0 THEN NaN
                        ELSE Num(NUnique(rows, c, p))]]

\* A slip: the last column taken for the cohort sizes (iloc[:, -1]).
FirstColumnLast(pv) ==
    [c \in Range(pv.index) |-> pv.values[c, pv.columns[Len(pv.columns)]]]

\* cohort_pivot.iloc[:, 0]: per cohort, the cell of the first column.
FirstColumn(pv) == [c \in Range(pv.index) |-> pv.values[c, pv.columns[1]]]

\* A slip: the missing cells filled with 0 before the division (fillna(0)).
DivideRowsFillZero(pv, sizes) ==
    [pv EXCEPT !.values =
        [c \in Range(pv.index), p \in Range(pv.columns) |->
            IF isna(pv.values[c, p]) THEN Num(0)
            ELSE RatMul(RatDiv(pv.values[c, p], sizes[c]), Num(100))]]

\* cohort_pivot.divide(cohort_sizes, axis=0) * 100
DivideRows(pv, sizes) ==
    [pv EXCEPT !.values =
        [c \in Range(pv.index), p \in Range(pv.columns) |->
            RatMul(RatDiv(pv.values[c, p], sizes[c]), Num(100))]]

\* The slice bounds of retention.iloc[:, 1:6].
BestSliceStart == 1
BestSliceStop == 6

\* columns[start:stop], positions counted from 0 as iloc does.
ILocSlice(columns, start, stop) ==
    SubSeq(columns, start + 1, IF stop < Len(columns) THEN stop ELSE Len(columns))

RECURSIVE SumCells(_, _)
SumCells(f, S) ==
    IF S = {} THEN Num(0)
    ELSE LET x == CHOOSE y \in S : TRUE IN RatAdd(f[x], SumCells(f, S \ {x}))

\* mean of the cells f[x], x in S, NaN cells skipped; NaN when none is left.
MeanSkipNa(f, S) ==
    LET present == { x \in S : ~isna(f[x]) }
    IN  IF present = {} THEN NaN
        ELSE RatDiv(SumCells(f, present), Num(Cardinality(present)))

\* retention.mean(axis=0): per period column, the mean over the cohorts.
ColumnMeans(tbl) ==
    [p \in Range(tbl.columns) |->
        MeanSkipNa([c \in Range(tbl.index) |-> tbl.values[c, p]], Range(tbl.index))]

\* tbl.iloc[:, start:stop].mean(axis=1): per cohort, the mean over the sliced columns.
RowMeansILoc(tbl, start, stop) ==
    LET cols == Range(ILocSlice(tbl.columns, start, stop))
    IN  [c \in Range(tbl.index) |->
            MeanSkipNa([p \in cols |-> tbl.values[c, p]], cols)]

\* Series.idxmax / idxmin over a series whose index is the sequence idx: the
\* position in idx of the first largest (smallest) value that is not NaN, 0 when
\* every value is NaN or the series is empty.
IdxMaxPos(series, idx) ==
    LET ok == { i \in 1..Len(idx) : ~isna(series[idx[i]]) }
    IN  IF ok = {} THEN 0
        ELSE SetMin({ i \in ok : \A j \in ok : ~RatLess(series[idx[i]], series[idx[j]]) })

IdxMinPos(series, idx) ==
    LET ok == { i \in 1..Len(idx) : ~isna(series[idx[i]]) }
    IN  IF ok = {} THEN 0
        ELSE SetMin({ i \in ok : \A j \in ok : ~RatLess(series[idx[j]], series[idx[i]]) })

\* What idxmax / idxmin of an all-NaN series does depends on the pandas release:
\* it returns NaN (with a warning) or raises ValueError.
IdxAllNaOutcomes == {"nan", "ValueError"}

Unset == [set |-> FALSE, na |-> FALSE, value |-> 0]
Label(v) == [set |-> TRUE, na |-> FALSE, value |-> v]
NaLabel == [set |-> TRUE, na |-> TRUE, value |-> 0]

\* A slip: the check compares with another text than the placeholder's.
CohortIsTemplateTypo(text) == text = "{{ data }}"

\* Line 24: data_json == '{{data}}'
CohortIsTemplate(text) == text = DataPlaceholder

EmptyTable == [index |-> << >>, columns |-> << >>, values |-> << >>]

\* ------------------------------------------------------- funnel: inputs

\* Stage names, as texts.
Lead == << "l", "e", "a", "d" >>
Qualified == << "q", "u", "a", "l", "i", "f", "i", "e", "d" >>
Closed == << "c", "l", "o", "s", "e", "d" >>
StageNames == {Lead, Qualified, Closed}

Comma == ","
Quote == "\""

\* The text of the stages placeholder, as it stands in the template.
StagesPlaceholder == << "{", "{", "s", "t", "a", "g", "e", "s", "}", "}" >>

\* sep.join(parts)
RECURSIVE Join(_, _)
Join(parts, sep) ==
    IF Len(parts) = 0 THEN << >>
    ELSE IF Len(parts) = 1 THEN parts[1]
    ELSE parts[1] \o << sep >> \o Join(Tail(parts), sep)

\* text.split(sep): the parts between the separators; the empty text gives [''].
RECURSIVE Split(_, _)
Split(text, sep) ==
    IF \A k \in 1..Len(text) : text[k] # sep THEN << text >>
    ELSE LET k == SetMin({ m \in 1..Len(text) : text[m] = sep })
         IN  << SubSeq(text, 1, k - 1) >> \o Split(SubSeq(text, k + 1, Len(text)), sep)

StageLists == { l \in SeqsUpTo(StageNames, MaxStages) : Len(l) >= 1 }

\* What the host puts in place of the stages placeholder: nothing (the placeholder
\* is left), the empty text, a comma-separated list as it is, or a Python string
\* literal holding a comma-separated list (the empty list included).
StageTexts ==
    {StagesPlaceholder, << >>}
    \cup { Join(l, Comma) : l \in StageLists }
    \cup { << Quote >> \o Join(l, Comma) \o << Quote >> : l \in SeqsUpTo(StageNames, MaxStages) }

\* The template as it is shipped: no placeholder substituted.
FunnelTemplate == [text |-> DataPlaceholder, rows |-> << >>, stages |-> StagesPlaceholder]

\* The template with a JSON array of n records injected, given by its columns, and
\* the text t put for the stages placeholder.
FunnelInjected(n, us, ss, t) ==
    [text |-> JsonText,
     rows |-> [k \in 1..n |-> [user_id |-> us[k], stage |-> ss[k]]],
     stages |-> t]

VARIABLES
    fpc,             \* funnel script: the block the run is at
    sales_json,      \* funnel script: data_json and the text put for the stages placeholder
    sales_df,        \* funnel script: the rows of df
    funnel_stages,   \* funnel script: funnel_stages
    total_leads,     \* funnel script: total_leads
    funnel_metrics,  \* funnel script: funnel_metrics (the rows of funnel_df)
    dropoffs,        \* funnel script: the lines of the drop-off analysis
    insights,        \* funnel script: the biggest drop-off and best conversion lines
    fout             \* funnel script: what the run has left outside

funnelVars == << fpc, sales_json, sales_df, funnel_stages, total_leads,
                 funnel_metrics, dropoffs, insights, fout >>

vars == << cohortVars, funnelVars >>

\* ------------------------------------------------------- funnel: helpers

\* Line 15: data_json == '{{data}}'
FunnelIsTemplate(text) == text = DataPlaceholder

\* A Python string literal in double quotes.
IsStringLiteral(t) ==
    /\ Len(t) >= 2
    /\ t[1] = Quote
    /\ t[Len(t)] = Quote
    /\ \A k \in 2..(Len(t) - 1) : t[k] # Quote

StringValue(t) == SubSeq(t, 2, Len(t) - 1)

\* Line 30 with the text t in place of {{stages}} is Python only if t is an
\* expression: with nothing there the line reads "funnel_stages = .split(',') if
\* '' != '' else ...", and the script does not compile.
Compiles(t) == t # << >>

\* df['stage'].unique().tolist(): the distinct stages in first-seen order.
RECURSIVE Unique(_)
Unique(col) ==
    IF col = << >> THEN << >>
    ELSE LET init == Unique(SubSeq(col, 1, Len(col) - 1))
             x    == col[Len(col)]
         IN  IF x \in Range(init) THEN init ELSE Append(init, x)

StageColumn(rows) == [k \in 1..Len(rows) |-> rows[k].stage]

\* Line 30: t.split(',') if 't' != '' else df['stage'].unique().tolist().
\* The placeholder left as it is reads the name stages, a bare list reads the
\* names of its stages: both raise NameError.
StagesExpr(t, rows) ==
    IF t # << >>
    THEN IF IsStringLiteral(t)
         THEN [error |-> FALSE, value |-> Split(StringValue(t), Comma)]
         ELSE [error |-> TRUE, value |-> << >>]
    ELSE [error |-> FALSE, value |-> Unique(StageColumn(rows))]

\* df['user_id'].nunique()
TotalLeads(rows) == Cardinality({ rows[k].user_id : k \in 1..Len(rows) })

\* A slip: the records counted, not the distinct users (count() for nunique()).
StageUsersRows(rows, stage) ==
    Cardinality({ m \in 1..Len(rows) : rows[m].stage = stage })

\* df[df['stage'] == stage]['user_id'].nunique()
StageUsers(rows, stage) ==
    Cardinality({ rows[k].user_id : k \in { m \in 1..Len(rows) : rows[m].stage = stage } })

\* Line 43
ConversionRate(stage_users, total) ==
    IF total > 0 THEN RatMul(Rat(stage_users, total), Num(100)) ELSE Num(0)

\* A slip: the first stage taken for the previous one (funnel_metrics[0]).
PrevStageUsersFirst(metrics, i) == metrics[1].users

\* funnel_metrics[i-1]['users'], i counted from 0 as enumerate does
PrevStageUsers(metrics, i) == metrics[i].users

\* Lines 45-49
StageConversion(i, stage_users, metrics) ==
    IF i > 0
    THEN IF PrevStageUsers(metrics, i) > 0
         THEN RatMul(Rat(stage_users, PrevStageUsers(metrics, i)), Num(100))
         ELSE Num(0)
    ELSE Num(100)

\* Lines 40-56: funnel_metrics after the first k rounds of the loop.
RECURSIVE Metrics(_, _, _, _)
Metrics(rows, stages, total, k) ==
    IF k = 0 THEN << >>
    ELSE LET done == Metrics(rows, stages, total, k - 1)
             su   == StageUsers(rows, stages[k])
         IN  Append(done,
                    [stage |-> stages[k],
                     users |-> su,
                     overall_conversion |-> ConversionRate(su, total),
                     stage_conversion |->
                        StageConversion(k - 1, su, done)])

\* A slip: the difference taken the other way round.
DropoffReversed(current_users, next_users) == next_users - current_users

\* Lines 73-74
Dropoff(current_users, next_users) == current_users - next_users

DropoffRate(dropoff, current_users) ==
    IF current_users > 0 THEN RatMul(Rat(dropoff, current_users), Num(100)) ELSE Num(0)

\* Lines 70-77: one printed entry per pair of consecutive rows of funnel_df.
Dropoffs(fdf) ==
    [i \in 1..(Len(fdf) - 1) |->
        [from |-> fdf[i].stage,
         to   |-> fdf[i + 1].stage,
         lost |-> Dropoff(fdf[i].users, fdf[i + 1].users),
         rate |-> DropoffRate(Dropoff(fdf[i].users, fdf[i + 1].users), fdf[i].users)]]

\* funnel_df.iloc[k], k counted from 0
ILoc(fdf, k) == fdf[k + 1]

\* funnel_df['stage_conversion'].iloc[1:]: the series without its first entry; its
\* labels stay those of funnel_df, 1 .. len - 1.
TailLabels(fdf) == [k \in 1..(Len(fdf) - 1) |-> k]

StageConversionSeries(fdf) == [k \in 0..(Len(fdf) - 1) |-> fdf[k + 1].stage_conversion]

\* A slip: the labels of the sliced series taken to start at 0 again.
BiggestDropoffIdxRelabelled(fdf) ==
    IdxMinPos(StageConversionSeries(fdf), TailLabels(fdf)) - 1

\* Line 134: the label idxmin gives
BiggestDropoffIdx(fdf) ==
    TailLabels(fdf)[IdxMinPos(StageConversionSeries(fdf), TailLabels(fdf))]

\* Line 139: the label idxmax gives
BestStageIdx(fdf) ==
    TailLabels(fdf)[IdxMaxPos(StageConversionSeries(fdf), TailLabels(fdf))]

\* Lines 136 and 141: the stage and the percentage of a printed line
InsightLine(fdf, idx) ==
    [stage |-> ILoc(fdf, idx).stage, conversion |-> ILoc(fdf, idx).stage_conversion]

NoInsights == [printed |-> FALSE, biggest_dropoff |-> << >>, best_conversion |-> << >>]

NoOutput == [hint |-> FALSE, exit |-> "running", png |-> FALSE, csv |-> FALSE]

\* ------------------------------------------------------- initial states

CohortIdle ==
    /\ data_json = CohortTemplate
    /\ cpc = "idle"
    /\ df = << >>
    /\ cohort_pivot = EmptyTable
    /\ cohort_sizes = << >>
    /\ retention = EmptyTable
    /\ avg_retention = << >>
    /\ best_cohort = Unset
    /\ worst_cohort = Unset
    /\ cout = NoOutput

FunnelIdle ==
    /\ sales_json = FunnelTemplate
    /\ fpc = "idle"
    /\ sales_df = << >>
    /\ funnel_stages = << >>
    /\ total_leads = 0
    /\ funnel_metrics = << >>
    /\ dropoffs = << >>
    /\ insights = NoInsights
    /\ fout = NoOutput

CohortInit ==
    /\ \/ data_json = CohortTemplate
       \/ \E n \in 0..MaxLen :
             \E us \in UserColumns(n), ds \in [1..n -> SampleDates] :
                data_json = CohortInjected(n, us, ds)
    /\ cpc = "start"
    /\ df = << >>
    /\ cohort_pivot = EmptyTable
    /\ cohort_sizes = << >>
    /\ retention = EmptyTable
    /\ avg_retention = << >>
    /\ best_cohort = Unset
    /\ worst_cohort = Unset
    /\ cout = NoOutput
    /\ FunnelIdle

FunnelInit ==
    /\ \/ sales_json = FunnelTemplate
       \/ \E n \in 0..MaxRows :
             \E us \in UserColumns(n), ss \in [1..n -> StageNames], t \in StageTexts :
                sales_json = FunnelInjected(n, us, ss, t)
    /\ fpc = "compile"
    /\ sales_df = << >>
    /\ funnel_stages = << >>
    /\ total_leads = 0
    /\ funnel_metrics = << >>
    /\ dropoffs = << >>
    /\ insights = NoInsights
    /\ fout = NoOutput
    /\ CohortIdle

\* ------------------------------------------------------- cohort: the run

\* Lines 22-30: the template-mode check.
CohortCheckTemplate ==
    /\ cpc = "start"
    /\ IF CohortIsTemplate(data_json.text)
       THEN /\ cout' = [cout EXCEPT !.hint = TRUE, !.exit = "0"]
            /\ cpc' = "exited"
       ELSE /\ cout' = cout
            /\ cpc' = "load"
    /\ UNCHANGED funnelVars
    /\ UNCHANGED << data_json, df, cohort_pivot, cohort_sizes, retention,
                    avg_retention, best_cohort, worst_cohort >>

\* Lines 33-36: json.loads, DataFrame, to_datetime. An empty array gives a frame
\* with no 'date' column, and df['date'] raises KeyError.
CohortLoadData ==
    /\ cpc = "load"
    /\ IF data_json.rows = << >>
       THEN /\ cpc' = "error"
            /\ cout' = [cout EXCEPT !.exit = "1"]
            /\ df' = df
       ELSE /\ cpc' = "build"
            /\ cout' = cout
            /\ df' = [i \in 1..Len(data_json.rows) |->
                        [user_id |-> data_json.rows[i].user_id,
                         date    |-> to_datetime(data_json.rows[i].date)]]
    /\ UNCHANGED funnelVars
    /\ UNCHANGED << data_json, cohort_pivot, cohort_sizes, retention,
                    avg_retention, best_cohort, worst_cohort >>

\* The cohort_month, activity_month and period_number columns of lines 39-43.
WithCohortColumns(rows) ==
    [i \in 1..Len(rows) |->
        [user_id        |-> rows[i].user_id,
         date           |-> rows[i].date,
         cohort_month   |-> CohortMonthOf(rows, i),
         activity_month |-> to_period_M(rows[i].date),
         period_number  |-> PeriodNumber(to_period_M(rows[i].date), CohortMonthOf(rows, i))]]

\* Lines 39-53: the cohort columns of df, cohort_pivot, cohort_sizes, retention.
CohortBuild ==
    /\ cpc = "build"
    /\ df' = WithCohortColumns(df)
    /\ cohort_pivot' = Pivot(df')
    /\ cohort_sizes' = FirstColumn(cohort_pivot')
    /\ retention' = DivideRows(cohort_pivot', cohort_sizes')
    /\ cpc' = "report"
    /\ UNCHANGED funnelVars
    /\ UNCHANGED << data_json, avg_retention, best_cohort, worst_cohort, cout >>

\* Line 125 (126): the label idxmax (idxmin) gives, NaLabel for an all-NaN series.
BestCohort(tbl) ==
    LET pos == IdxMaxPos(RowMeansILoc(tbl, BestSliceStart, BestSliceStop), tbl.index)
    IN  IF pos = 0 THEN NaLabel ELSE Label(tbl.index[pos])

WorstCohort(tbl) ==
    LET pos == IdxMinPos(RowMeansILoc(tbl, BestSliceStart, BestSliceStop), tbl.index)
    IN  IF pos = 0 THEN NaLabel ELSE Label(tbl.index[pos])

\* Lines 55-132: the report, avg_retention, the chart, the CSV file and the key
\* insights with the best and the worst cohort.
CohortReport ==
    /\ cpc = "report"
    /\ avg_retention' = ColumnMeans(retention)
    /\ \E best \in {BestCohort(retention)}, worst \in {WorstCohort(retention)} :
          IF best.na
          THEN \E outcome \in IdxAllNaOutcomes :
                  IF outcome = "nan"
                  THEN /\ best_cohort' = best
                       /\ worst_cohort' = worst
                       /\ cpc' = "done"
                       /\ cout' = [cout EXCEPT !.png = TRUE, !.csv = TRUE, !.exit = "0"]
                  ELSE /\ best_cohort' = best_cohort
                       /\ worst_cohort' = worst_cohort
                       /\ cpc' = "error"
                       /\ cout' = [cout EXCEPT !.png = TRUE, !.csv = TRUE, !.exit = "1"]
          ELSE /\ best_cohort' = best
               /\ worst_cohort' = worst
               /\ cpc' = "done"
               /\ cout' = [cout EXCEPT !.png = TRUE, !.csv = TRUE, !.exit = "0"]
    /\ UNCHANGED funnelVars
    /\ UNCHANGED << data_json, df, cohort_pivot, cohort_sizes, retention >>

CohortNext ==
    \/ CohortCheckTemplate
    \/ CohortLoadData
    \/ CohortBuild
    \/ CohortReport

\* ------------------------------------------------------- funnel: the run

\* The interpreter compiles the substituted script before it runs a line of it.
FunnelCompile ==
    /\ fpc = "compile"
    /\ IF Compiles(sales_json.stages)
       THEN /\ fpc' = "start"
            /\ fout' = fout
       ELSE /\ fpc' = "error"
            /\ fout' = [fout EXCEPT !.exit = "1"]
    /\ UNCHANGED cohortVars
    /\ UNCHANGED << sales_json, sales_df, funnel_stages, total_leads,
                    funnel_metrics, dropoffs, insights >>

\* Lines 13-21: the template-mode check.
FunnelCheckTemplate ==
    /\ fpc = "start"
    /\ IF FunnelIsTemplate(sales_json.text)
       THEN /\ fout' = [fout EXCEPT !.hint = TRUE, !.exit = "0"]
            /\ fpc' = "exited"
       ELSE /\ fout' = fout
            /\ fpc' = "load"
    /\ UNCHANGED cohortVars
    /\ UNCHANGED << sales_json, sales_df, funnel_stages, total_leads,
                    funnel_metrics, dropoffs, insights >>

\* Lines 24-27: json.loads, DataFrame, to_datetime. An empty array gives a frame
\* with no 'date' column, and df['date'] raises KeyError.
FunnelLoadData ==
    /\ fpc = "load"
    /\ IF sales_json.rows = << >>
       THEN /\ fpc' = "error"
            /\ fout' = [fout EXCEPT !.exit = "1"]
            /\ sales_df' = sales_df
       ELSE /\ fpc' = "stages"
            /\ fout' = fout
            /\ sales_df' = sales_json.rows
    /\ UNCHANGED cohortVars
    /\ UNCHANGED << sales_json, funnel_stages, total_leads, funnel_metrics,
                    dropoffs, insights >>

\* Lines 30-34: funnel_stages.
FunnelStages ==
    /\ fpc = "stages"
    /\ \E r \in {StagesExpr(sales_json.stages, sales_df)} :
           IF r.error
           THEN /\ fpc' = "error"
                /\ fout' = [fout EXCEPT !.exit = "1"]
                /\ funnel_stages' = funnel_stages
           ELSE /\ fpc' = "metrics"
                /\ fout' = fout
                /\ funnel_stages' = r.value
    /\ UNCHANGED cohortVars
    /\ UNCHANGED << sales_json, sales_df, total_leads, funnel_metrics,
                    dropoffs, insights >>

\* Lines 37-58: total_leads and the loop building funnel_metrics.
FunnelMetrics ==
    /\ fpc = "metrics"
    /\ total_leads' = TotalLeads(sales_df)
    /\ funnel_metrics' = Metrics(sales_df, funnel_stages, total_leads', Len(funnel_stages))
    /\ fpc' = "report"
    /\ UNCHANGED cohortVars
    /\ UNCHANGED << sales_json, sales_df, funnel_stages, dropoffs, insights, fout >>

\* Lines 60-145: the metrics table, the drop-off analysis, the chart, the CSV
\* file and the key insights. With a single stage the series
\* stage_conversion.iloc[1:] is empty and idxmin raises ValueError.
FunnelReport ==
    /\ fpc = "report"
    /\ dropoffs' = Dropoffs(funnel_metrics)
    /\ IF Len(funnel_metrics) < 2
       THEN /\ fpc' = "error"
            /\ fout' = [fout EXCEPT !.png = TRUE, !.csv = TRUE, !.exit = "1"]
            /\ insights' = insights
       ELSE /\ fpc' = "done"
            /\ fout' = [fout EXCEPT !.png = TRUE, !.csv = TRUE, !.exit = "0"]
            /\ insights' =
                 [printed |-> TRUE,
                  biggest_dropoff |->
                     InsightLine(funnel_metrics, BiggestDropoffIdx(funnel_metrics)),
                  best_conversion |->
                     InsightLine(funnel_metrics, BestStageIdx(funnel_metrics))]
    /\ UNCHANGED cohortVars
    /\ UNCHANGED << sales_json, sales_df, funnel_stages, total_leads, funnel_metrics >>

FunnelNext ==
    \/ FunnelCompile
    \/ FunnelCheckTemplate
    \/ FunnelLoadData
    \/ FunnelStages
    \/ FunnelMetrics
    \/ FunnelReport

\* ------------------------------------------------------- specifications

\* A run of the cohort script.
SpecCohort == CohortInit /\ [][CohortNext]_vars

\* A run of the funnel script.
SpecFunnel == FunnelInit /\ [][FunnelNext]_vars

\* A run of either script.
Spec == (CohortInit \/ FunnelInit) /\ [][CohortNext \/ FunnelNext]_vars

\* ------------------------------------------------------- properties: cohort

\* The cohort table has been built.
CohortBuilt == Len(cohort_pivot.index) > 0

\* C1: for every cohort month that is a row of the cohort table, the divisor of
\* the row (the first column of the pivoted table) is the count at elapsed period
\* 0 and is at least 1, and the retention value at period 0 is exactly 100.
C1_PeriodZeroIsHundred ==
    CohortBuilt =>
        /\ cohort_pivot.columns[1] = 0
        /\ \A c \in Range(cohort_pivot.index) :
              /\ cohort_sizes[c] = cohort_pivot.values[c, 0]
              /\ cohort_sizes[c].d = 1
              /\ cohort_sizes[c].n >= 1
              /\ retention.values[c, 0] = Num(100)

\* Two cohorts and several period columns.
C1_Witness ==
    /\ CohortBuilt
    /\ Len(cohort_pivot.index) = 2
    /\ Len(cohort_pivot.columns) >= 2
    /\ \E c \in Range(cohort_pivot.index) : retention.values[c, 0] = Num(100)

\* C2: the retention table is defined on exactly the (cohort, period) pairs that
\* have a count in the cohort table, where it is count(cohort, period) /
\* count(cohort, 0) * 100; a pair without events is missing, never 0.
C2_RetentionCells ==
    CohortBuilt =>
        /\ retention.index = cohort_pivot.index
        /\ retention.columns = cohort_pivot.columns
        /\ \A c \in Range(cohort_pivot.index), p \in Range(cohort_pivot.columns) :
              IF isna(cohort_pivot.values[c, p])
              THEN isna(retention.values[c, p])
              ELSE retention.values[c, p] =
                      Rat(cohort_pivot.values[c, p].n * 100, cohort_pivot.values[c, 0].n)

\* A table with a missing cell and, at a later period, a cell with a count.
C2_Witness ==
    /\ CohortBuilt
    /\ \E c \in Range(cohort_pivot.index), p \in Range(cohort_pivot.columns) :
          isna(cohort_pivot.values[c, p]) /\ isna(retention.values[c, p])
    /\ \E c \in Range(cohort_pivot.index), p \in Range(cohort_pivot.columns) :
          p > 0 /\ retention.values[c, p] = Num(100)

\* The month of an injected record, and what the cohort table is to hold, both
\* read off the injected records.
RecordMonth(r) == to_period_M(to_datetime(r.date))

\* The earliest of the months of the records of user u.
EarliestMonth(u) ==
    SetMin({ RecordMonth(data_json.rows[k]) :
               k \in { j \in 1..Len(data_json.rows) : data_json.rows[j].user_id = u } })

\* Per record, its (cohort month, elapsed period) pair.
RecordCell ==
    [k \in 1..Len(data_json.rows) |->
        << EarliestMonth(data_json.rows[k].user_id),
           RecordMonth(data_json.rows[k]) - EarliestMonth(data_json.rows[k].user_id) >>]

\* The number of distinct users with a record in the cell, cells being RecordCell.
DistinctUsers(cells, cell) ==
    Cardinality({ data_json.rows[k].user_id :
                    k \in { j \in 1..Len(data_json.rows) : cells[j] = cell } })

\* The records of the spec's cohort scenario.
CohortScenario ==
    << [user_id |-> 1, date |-> "2024-01-10"], [user_id |-> 1, date |-> "2024-02-05"],
       [user_id |-> 2, date |-> "2024-01-20"], [user_id |-> 2, date |-> "2024-03-01"] >>

January2024 == to_period_M([y |-> 2024, m |-> 1, d |-> 1])

\* C3: each user's cohort month is the month of the user's earliest event, each
\* event's elapsed period is the whole-month difference (>= 0) to it, and cell
\* (c, p) of the cohort table is the number of distinct users of cohort c with an
\* event at period p; the scenario gives the single row 2024-01 = {0:2, 1:1, 2:1}.
C3_CohortTable ==
    CohortBuilt =>
        \A cells \in {RecordCell} :
            /\ \A i \in 1..Len(df) :
                  /\ df[i].cohort_month = cells[i][1]
                  /\ df[i].period_number = cells[i][2]
                  /\ df[i].period_number >= 0
            /\ Range(cohort_pivot.index) = { cells[k][1] : k \in 1..Len(data_json.rows) }
            /\ Range(cohort_pivot.columns) = { cells[k][2] : k \in 1..Len(data_json.rows) }
            /\ \A c \in Range(cohort_pivot.index), p \in Range(cohort_pivot.columns) :
                  \A n \in {DistinctUsers(cells, << c, p >>)} :
                      IF n > 0 THEN cohort_pivot.values[c, p] = Num(n)
                      ELSE isna(cohort_pivot.values[c, p])
            /\ data_json.rows = CohortScenario =>
                  /\ cohort_pivot.index = << January2024 >>
                  /\ cohort_pivot.columns = << 0, 1, 2 >>
                  /\ cohort_pivot.values[January2024, 0] = Num(2)
                  /\ cohort_pivot.values[January2024, 1] = Num(1)
                  /\ cohort_pivot.values[January2024, 2] = Num(1)

\* The scenario's run, complete.
C3_Witness ==
    /\ cpc = "done"
    /\ data_json.rows = CohortScenario
    /\ retention.values[January2024, 1] = Num(50)

\* The mean retention of cohort c over the cells at elapsed periods 1 to 5,
\* missing cells ignored.
MeanPeriods1To5(c) ==
    LET cols == { p \in Range(retention.columns) : 1 <= p /\ p <= 5 }
    IN  MeanSkipNa([p \in cols |-> retention.values[c, p]], cols)

\* C9: the best (worst) cohort reported is the cohort whose mean retention over
\* the cells at elapsed periods 1 to 5, selected by period value, is highest
\* (lowest), whatever the set of period columns.
C9_BestWorstByPeriodValue ==
    (/\ cpc = "done"
     /\ \E c \in Range(retention.index) : ~isna(MeanPeriods1To5(c)))
    => /\ best_cohort.set /\ ~best_cohort.na
       /\ worst_cohort.set /\ ~worst_cohort.na
       /\ ~isna(MeanPeriods1To5(best_cohort.value))
       /\ ~isna(MeanPeriods1To5(worst_cohort.value))
       /\ \A c \in Range(retention.index) :
             ~isna(MeanPeriods1To5(c)) =>
                /\ ~RatLess(MeanPeriods1To5(best_cohort.value), MeanPeriods1To5(c))
                /\ ~RatLess(MeanPeriods1To5(c), MeanPeriods1To5(worst_cohort.value))

\* ------------------------------------------------------- properties: funnel

\* The number of distinct users with a record at the stage, read off the
\* injected records.
UsersAt(stage) ==
    Cardinality({ u \in UserIds :
                    \E k \in 1..Len(sales_json.rows) :
                        sales_json.rows[k] = [user_id |-> u, stage |-> stage] })

AllUsers ==
    Cardinality({ u \in UserIds :
                    \E k \in 1..Len(sales_json.rows) : sales_json.rows[k].user_id = u })

MetricsBuilt == Len(funnel_metrics) > 0

\* C4: stage_conversion of the first stage is exactly 100, and of stage i > 0 it
\* is users[i] / users[i-1] * 100 when users[i-1] > 0 and 0 when users[i-1] = 0.
C4_StageConversion ==
    /\ fpc \in {"report", "done"} => MetricsBuilt
    /\ MetricsBuilt =>
          /\ Len(funnel_metrics) = Len(funnel_stages)
          /\ funnel_metrics[1].stage_conversion = Num(100)
          /\ \A i \in 2..Len(funnel_metrics) :
                funnel_metrics[i].stage_conversion =
                    IF UsersAt(funnel_stages[i - 1]) > 0
                    THEN Rat(UsersAt(funnel_stages[i]) * 100, UsersAt(funnel_stages[i - 1]))
                    ELSE Num(0)

\* Three stages: a conversion of 50 % after a stage with users, and a stage after
\* one without users.
C4_Witness ==
    /\ Len(funnel_metrics) = 3
    /\ \E i \in 2..3 : /\ funnel_metrics[i - 1].users = 0
                       /\ funnel_metrics[i].users > 0
                       /\ funnel_metrics[i].stage_conversion = Num(0)
    /\ \E i \in 2..3 : funnel_metrics[i].stage_conversion = Num(50)

\* C5: one entry per configured stage, in configured order; an entry's user count
\* is the number of distinct users with a record at the stage, whatever the
\* earlier stages hold; its overall_conversion is the count over the number of
\* distinct users of the whole data, times 100.
C5_StageMembership ==
    MetricsBuilt =>
        /\ Join(funnel_stages, Comma) = StringValue(sales_json.stages)
        /\ Len(funnel_metrics) = Len(funnel_stages)
        /\ total_leads = AllUsers
        /\ \A i \in 1..Len(funnel_metrics) :
              /\ funnel_metrics[i].stage = funnel_stages[i]
              /\ funnel_metrics[i].users = UsersAt(funnel_stages[i])
              /\ funnel_metrics[i].overall_conversion =
                    IF AllUsers > 0 THEN Rat(UsersAt(funnel_stages[i]) * 100, AllUsers)
                    ELSE Num(0)

\* A later stage with more users than the stage before it, one of them absent
\* from that stage, and an overall conversion of 50 %.
C5_Witness ==
    /\ MetricsBuilt
    /\ \E i \in 2..Len(funnel_metrics) :
          /\ funnel_metrics[i].users > funnel_metrics[i - 1].users
          /\ funnel_metrics[i - 1].users > 0
          /\ funnel_metrics[i - 1].overall_conversion = Num(50)

\* C6: for consecutive stages (i-1, i) the drop-off is users[i-1] - users[i]
\* (negative when the later stage has more users) and the drop-off rate is
\* (users[i-1] - users[i]) / users[i-1] * 100 when users[i-1] > 0, else 0.
C6_Dropoff ==
    fout.csv =>
        /\ Len(dropoffs) = Len(funnel_stages) - 1
        /\ \A i \in 1..Len(dropoffs) :
              LET prev == UsersAt(funnel_stages[i])
                  cur  == UsersAt(funnel_stages[i + 1])
              IN  /\ dropoffs[i].from = funnel_stages[i]
                  /\ dropoffs[i].to = funnel_stages[i + 1]
                  /\ dropoffs[i].lost = prev - cur
                  /\ dropoffs[i].rate =
                        IF prev > 0 THEN Rat((prev - cur) * 100, prev) ELSE Num(0)

\* A negative drop-off, and a drop-off after a stage without users.
C6_Witness ==
    /\ fpc = "done"
    /\ \E i \in 1..Len(dropoffs) : dropoffs[i].lost < 0 /\ dropoffs[i].rate = Num(-100)
    /\ \E i \in 1..Len(dropoffs) :
          /\ funnel_metrics[i].users = 0
          /\ dropoffs[i].rate = Num(0)

\* C8: a non-empty stage configuration gives its comma-separated parts, in order;
\* with an empty or absent one the run proceeds with the distinct stages of the
\* data, in first-seen order.
C8_StageConfiguration ==
    (/\ sales_json.text # DataPlaceholder
     /\ sales_json.rows # << >>
     /\ fpc \in {"error", "done"})
    => IF sales_json.stages \in {<< >>, StagesPlaceholder}
       THEN funnel_stages = Unique(StageColumn(sales_json.rows))
       ELSE IF IsStringLiteral(sales_json.stages)
            THEN Join(funnel_stages, Comma) = StringValue(sales_json.stages)
            ELSE Join(funnel_stages, Comma) = sales_json.stages

\* The first stage after the first one whose stage_conversion no later stage
\* undercuts (exceeds): rows counted from 1.
FirstLowest ==
    SetMin({ i \in 2..Len(funnel_metrics) :
               \A j \in 2..Len(funnel_metrics) :
                  ~RatLess(funnel_metrics[j].stage_conversion,
                           funnel_metrics[i].stage_conversion) })

FirstHighest ==
    SetMin({ i \in 2..Len(funnel_metrics) :
               \A j \in 2..Len(funnel_metrics) :
                  ~RatLess(funnel_metrics[i].stage_conversion,
                           funnel_metrics[j].stage_conversion) })

\* C10: the biggest drop-off reported is the stage, the first excluded, with the
\* lowest stage_conversion, the best conversion the one with the highest; of tied
\* stages the first in stage order is reported; the name and the percentage
\* printed are those of that stage.
C10_BiggestDropoffBestConversion ==
    insights.printed =>
        /\ Len(funnel_metrics) >= 2
        /\ insights.biggest_dropoff =
              [stage |-> funnel_stages[FirstLowest],
               conversion |-> funnel_metrics[FirstLowest].stage_conversion]
        /\ insights.best_conversion =
              [stage |-> funnel_stages[FirstHighest],
               conversion |-> funnel_metrics[FirstHighest].stage_conversion]

\* Three different stages, the two later ones tied.
C10_Witness ==
    /\ insights.printed
    /\ Len(funnel_metrics) = 3
    /\ funnel_metrics[2].stage_conversion = funnel_metrics[3].stage_conversion
    /\ funnel_metrics[2].stage # funnel_metrics[3].stage
    /\ insights.biggest_dropoff.stage = funnel_metrics[2].stage

\* ------------------------------------------------------- properties: both

====
